---- MODULE Spec2Model ----
(***************************************************************************)
(* Model of src/app.py, the keyword stemming service.                      *)
(*                                                                         *)
(* State: the module globals _progress, _embedder, _kw_model, _stemmer     *)
(* (lines 38-41), the position of the startup coroutine (lines 82-106)     *)
(* and, for every worker that serves a request, the request it is serving, *)
(* the locals of the handler and the response it produced.                 *)
(*                                                                         *)
(* Hosting: startup_event is registered with @app.on_event("startup")      *)
(* (line 82).  Such a handler is awaited inside the ASGI lifespan startup; *)
(* the server starts to accept connections only after the handler has      *)
(* returned ("lifespan.startup.complete").  The await of run_in_executor   *)
(* (lines 90, 94) frees the event loop, but no route is served before the  *)
(* coroutine returns.  Requests are therefore guarded by Serving.          *)
(*                                                                         *)
(* The sync endpoints run in a thread pool, so several requests are in     *)
(* flight at once; the handler of /extract is modelled one loop iteration  *)
(* per step, /status one dictionary read per step.                         *)
(*                                                                         *)
(* The external capabilities are opaque but deterministic: the loaded      *)
(* embedding model is a ranking of the candidate phrases of a document     *)
(* (any ranking, drawn when the model is loaded), the stemmer a fixed      *)
(* function.  Calls of the extractor and the stemmer are assumed to return *)
(* (no exception while a request is served), request bodies to be          *)
(* well-formed JSON with integer fields.                                   *)
(***************************************************************************)
EXTENDS Integers, Sequences, FiniteSets, TLC

VARIABLES progress, embedder, kw_model, stemmer, init_pc, req

vars == <<progress, embedder, kw_model, stemmer, init_pc, req>>

-----------------------------------------------------------------------------
(* Bounds and configuration *)

\* TOP_N_MAX = int(os.getenv("TOP_N_MAX", "100")) (line 17) is set by the environment;
\* the model runs with TOP_N_MAX=2
TOP_N_MAX == 2

\* relevance scores are 1..MaxScore (the extractor's rounded cosine similarities)
MaxScore == 2

\* values a request may carry in min_ngram and max_ngram
MaxNgram == 2

\* worker threads serving requests
Procs == {1, 2}

\* exception messages str(exc)
ErrMsgs == {"e1", "e2"}

\* request documents: the empty text and a text with the candidate phrases
Docs == {"", "d1"}

\* candidate phrases of document "d1"
Phrases == {"pancire", "pancirya", "bez pancirya"}

\* number of words of a candidate phrase
NgramLen(w) == IF w = "bez pancirya" THEN 2 ELSE 1

-----------------------------------------------------------------------------
(* Pure helpers *)

Min(a, b) == IF a <= b THEN a ELSE b

\* the first n elements of s
Take(s, n) == SubSeq(s, 1, Min(n, Len(s)))

\* SnowballStemmer("russian").stem: inflected forms share a stem
Stem(w) ==
    CASE w = "pancire"      -> "pancir"
      [] w = "pancirya"     -> "pancir"
      [] w = "bez pancirya" -> "bez pancir"
      [] OTHER              -> w

\* the rankings an embedding model can give: every phrase once, scores non-increasing
Rankings ==
    {r \in [1..Cardinality(Phrases) -> [word : Phrases, score : 1..MaxScore]] :
        /\ \A a, b \in DOMAIN r : a < b => r[a].word # r[b].word /\ r[a].score >= r[b].score}

\* a module global that is still None, and a loaded model
None == [set |-> FALSE, rank |-> <<>>]

Loaded(r) == [set |-> TRUE, rank |-> r]

\* dict.update(**kv)
Update(d, kv) ==
    [k \in DOMAIN d \cup DOMAIN kv |-> IF k \in DOMAIN kv THEN kv[k] ELSE d[k]]

\* keyphrase_ngram_range filter of the candidates, in ranking order
RECURSIVE NgramFilter(_, _, _)
NgramFilter(r, lo, hi) ==
    IF r = <<>> THEN <<>>
    ELSE IF NgramLen(Head(r).word) >= lo /\ NgramLen(Head(r).word) <= hi
         THEN <<Head(r)>> \o NgramFilter(Tail(r), lo, hi)
         ELSE NgramFilter(Tail(r), lo, hi)

\* KeyBERT.extract_keywords(doc, keyphrase_ngram_range=(lo, hi), top_n=n)
extract_keywords(model, doc, lo, hi, n) ==
    IF doc = "" THEN <<>> ELSE Take(NgramFilter(model.rank, lo, hi), n)

-----------------------------------------------------------------------------
(* Readiness tracker *)

StateLoadingEmbedder == [status |-> "loading_embedder", percent |-> 10]

\* the percent of the second milestone mistyped
StateLoadingKwModelLow == [status |-> "loading_kw_model", percent |-> 5]

\* the second milestone written with the status of the third
StateLoadingKwModelMisnamed == [status |-> "loading_stemmer", percent |-> 50]

StateLoadingKwModel == [status |-> "loading_kw_model", percent |-> 50]

StateLoadingStemmer == [status |-> "loading_stemmer", percent |-> 80]

StateReady == [status |-> "ready", percent |-> 100]

\* the error update without percent=0
StateErrorKeepsPercent(m) == [status |-> "error", details |-> [error |-> m]]

StateError(m) == [status |-> "error", percent |-> 0, details |-> [error |-> m]]

\* routes served from process start, while the startup task is running
ServingAlways == TRUE

\* the lifespan startup has completed: routes are served
Serving == init_pc = "returned"

-----------------------------------------------------------------------------
(* Requests *)

NoBody == [detail |-> ""]

Idle ==
    [pc |-> "idle", kind |-> "none", doc |-> "", top_n |-> 0, min_ngram |-> 0,
     max_ngram |-> 0, called |-> FALSE, asked |-> 0, raw |-> <<>>, i |-> 0,
     seen |-> {}, results |-> <<>>, code |-> 0, body |-> NoBody]

\* request bodies a client may send
Requests ==
    [doc : Docs, top_n : 0..(TOP_N_MAX + 1), min_ngram : 0..MaxNgram, max_ngram : 0..MaxNgram]

\* top_n without its upper limit le=TOP_N_MAX
FieldsValidNoMax(r) ==
    /\ r.top_n >= 1
    /\ r.min_ngram >= 1
    /\ r.max_ngram >= 1

\* StemRequest field constraints: top_n ge=1 le=TOP_N_MAX, min_ngram ge=1, max_ngram ge=1
FieldsValid(r) ==
    /\ r.top_n >= 1
    /\ r.top_n <= TOP_N_MAX
    /\ r.min_ngram >= 1
    /\ r.max_ngram >= 1

\* a gate that rejects only while the models are loading
GateOpenAfterLoading(pr) ==
    pr["status"] \notin {"not_started", "loading_embedder", "loading_kw_model", "loading_stemmer"}

\* get_models: the readiness gate
GateOpen(pr) == pr["status"] = "ready"

\* the comparison with its operands exchanged
NgramRejectedSwapped(r) == r.max_ngram > r.min_ngram

\* stems: if request.min_ngram > request.max_ngram
NgramRejected(r) == r.min_ngram > r.max_ngram

\* stems: top_n=request.top_n * 2
CandidateCount(top_n) == top_n * 2

\* a seen set shared by the calls in flight instead of a local one
SharedSeen(rs) == UNION {rs[p].seen : p \in DOMAIN rs}

\* stems: seen = set()
FreshSeen(rs) == {}

\* no membership test
IsNewAlways(stem, seen) == TRUE

\* stems: if stem not in seen
IsNew(stem, seen) == stem \notin seen

\* a repeated stem overwrites the score of its entry
EmitStemLastScore(results, seen, stem, score) ==
    IF stem \notin seen THEN Append(results, [stem |-> stem, score |-> score])
    ELSE [k \in DOMAIN results |->
            IF results[k].stem = stem THEN [stem |-> stem, score |-> score] ELSE results[k]]

\* stems: results.append((stem, score)) for a stem that was not seen yet
EmitStem(results, seen, stem, score) ==
    IF IsNew(stem, seen) THEN Append(results, [stem |-> stem, score |-> score]) ELSE results

\* stems: seen.add(stem)
AddSeen(seen, stem) == seen \cup {stem}

\* the break taken one entry too late
LoopBreakStrict(results, top_n) == Len(results) > top_n

\* stems: if len(results) >= request.top_n: break
LoopBreak(results, top_n) == Len(results) >= top_n

\* status: details={k: v for k, v in _progress.items() if k not in ["status", "percent"]}
StatusDetails(pr) == [k \in DOMAIN pr \ {"status", "percent"} |-> pr[k]]

Respond(p, c, b) == req' = [req EXCEPT ![p].pc = "done", ![p].code = c, ![p].body = b]

-----------------------------------------------------------------------------
Init ==
    /\ progress = [status |-> "not_started", percent |-> 0]
    /\ embedder = None
    /\ kw_model = None
    /\ stemmer = "None"
    /\ init_pc = "start"
    /\ req = [p \in Procs |-> Idle]

(* startup_event *)

\* line 89
SetLoadingEmbedder ==
    /\ init_pc = "start"
    /\ progress' = Update(progress, StateLoadingEmbedder)
    /\ init_pc' = "load_embedder"
    /\ UNCHANGED <<embedder, kw_model, stemmer, req>>

\* line 90
LoadEmbedder ==
    /\ init_pc = "load_embedder"
    /\ \E r \in Rankings : embedder' = Loaded(r)
    /\ init_pc' = "set_kw_model"
    /\ UNCHANGED <<progress, kw_model, stemmer, req>>

\* line 93
SetLoadingKwModel ==
    /\ init_pc = "set_kw_model"
    /\ progress' = Update(progress, StateLoadingKwModel)
    /\ init_pc' = "load_kw_model"
    /\ UNCHANGED <<embedder, kw_model, stemmer, req>>

\* line 94
LoadKwModel ==
    /\ init_pc = "load_kw_model"
    /\ kw_model' = embedder
    /\ init_pc' = "set_stemmer"
    /\ UNCHANGED <<progress, embedder, stemmer, req>>

\* line 97
SetLoadingStemmer ==
    /\ init_pc = "set_stemmer"
    /\ progress' = Update(progress, StateLoadingStemmer)
    /\ init_pc' = "load_stemmer"
    /\ UNCHANGED <<embedder, kw_model, stemmer, req>>

\* the stemmer bound to a local name: the global stays None
LoadStemmerLocal ==
    /\ init_pc = "load_stemmer"
    /\ init_pc' = "set_ready"
    /\ UNCHANGED <<progress, embedder, kw_model, stemmer, req>>

\* line 98
LoadStemmer ==
    /\ init_pc = "load_stemmer"
    /\ stemmer' = "russian"
    /\ init_pc' = "set_ready"
    /\ UNCHANGED <<progress, embedder, kw_model, req>>

\* the task returns without its last update
SetReadyMissing ==
    /\ init_pc = "set_ready"
    /\ init_pc' = "returned"
    /\ UNCHANGED <<progress, embedder, kw_model, stemmer, req>>

\* line 101
SetReady ==
    /\ init_pc = "set_ready"
    /\ progress' = Update(progress, StateReady)
    /\ init_pc' = "returned"
    /\ UNCHANGED <<embedder, kw_model, stemmer, req>>

\* the except clause also entered after the task has finished
RaisingStepsAndAfter == {"load_embedder", "load_kw_model", "load_stemmer", "returned"}

\* the positions of the try block at which a call can raise: lines 90, 94, 98
RaisingSteps == {"load_embedder", "load_kw_model", "load_stemmer"}

\* lines 104-106: a load step (line 90, 94 or 98) raises
LoadFails ==
    /\ init_pc \in RaisingSteps
    /\ \E m \in ErrMsgs : progress' = Update(progress, StateError(m))
    /\ init_pc' = "returned"
    /\ UNCHANGED <<embedder, kw_model, stemmer, req>>

startup_event ==
    \/ SetLoadingEmbedder
    \/ LoadEmbedder
    \/ SetLoadingKwModel
    \/ LoadKwModel
    \/ SetLoadingStemmer
    \/ LoadStemmer
    \/ SetReady
    \/ LoadFails

(* GET /health *)
health(p) ==
    /\ Serving
    /\ req[p].pc = "idle"
    /\ req' = [req EXCEPT ![p] = [Idle EXCEPT !.pc = "done", !.kind = "health",
                                              !.code = 200, !.body = [status |-> "ok"]]]
    /\ UNCHANGED <<progress, embedder, kw_model, stemmer, init_pc>>

(* GET /status: the three reads of _progress, in argument order *)
StatusReadStatus(p) ==
    /\ Serving
    /\ req[p].pc = "idle"
    /\ req' = [req EXCEPT ![p] = [Idle EXCEPT !.pc = "status_percent", !.kind = "status",
                                              !.body = [status |-> progress["status"]]]]
    /\ UNCHANGED <<progress, embedder, kw_model, stemmer, init_pc>>

StatusReadPercent(p) ==
    /\ req[p].pc = "status_percent"
    /\ req' = [req EXCEPT ![p].pc = "status_details",
                          ![p].body = [status |-> req[p].body.status,
                                       percent |-> progress["percent"]]]
    /\ UNCHANGED <<progress, embedder, kw_model, stemmer, init_pc>>

\* the details taken out of _progress with pop instead of being copied
StatusReadDetailsPop(p) ==
    /\ req[p].pc = "status_details"
    /\ Respond(p, 200, [status |-> req[p].body.status, percent |-> req[p].body.percent,
                        details |-> StatusDetails(progress)])
    /\ progress' = [k \in DOMAIN progress \cap {"status", "percent"} |-> progress[k]]
    /\ UNCHANGED <<embedder, kw_model, stemmer, init_pc>>

StatusReadDetails(p) ==
    /\ req[p].pc = "status_details"
    /\ Respond(p, 200, [status |-> req[p].body.status, percent |-> req[p].body.percent,
                        details |-> StatusDetails(progress)])
    /\ UNCHANGED <<progress, embedder, kw_model, stemmer, init_pc>>

status(p) == StatusReadStatus(p) \/ StatusReadPercent(p) \/ StatusReadDetails(p)

(* POST /extract *)

\* the route is entered: Depends(get_models) is solved first, then the body is
\* validated against StemRequest, and only then the handler is called
ExtractArrive(p) ==
    /\ Serving
    /\ req[p].pc = "idle"
    /\ \E r \in Requests :
         LET q == [Idle EXCEPT !.kind = "extract", !.doc = r.doc, !.top_n = r.top_n,
                               !.min_ngram = r.min_ngram, !.max_ngram = r.max_ngram]
         IN  req' = [req EXCEPT ![p] =
                 IF ~GateOpen(progress)
                 THEN [q EXCEPT !.pc = "done", !.code = 503,
                                !.body = [detail |-> "Models are loading, please try again later."]]
                 ELSE IF ~FieldsValid(r)
                 THEN [q EXCEPT !.pc = "done", !.code = 422,
                                !.body = [detail |-> "validation error"]]
                 ELSE [q EXCEPT !.pc = "handler"]]
    /\ UNCHANGED <<progress, embedder, kw_model, stemmer, init_pc>>

\* lines 137-145
ExtractCall(p) ==
    /\ req[p].pc = "handler"
    /\ IF NgramRejected(req[p])
       THEN Respond(p, 400, [detail |-> "min_ngram must be <= max_ngram"])
       ELSE IF ~kw_model.set
       THEN Respond(p, 500, [detail |-> "Internal Server Error"])
       ELSE LET n == CandidateCount(req[p].top_n)
                raw == extract_keywords(kw_model, req[p].doc, req[p].min_ngram,
                                        req[p].max_ngram, n)
            IN  IF raw = <<>>
                THEN req' = [req EXCEPT ![p].called = TRUE, ![p].asked = n,
                                        ![p].seen = FreshSeen(req), ![p].pc = "done",
                                        ![p].code = 200, ![p].body = [stems |-> <<>>]]
                ELSE req' = [req EXCEPT ![p].called = TRUE, ![p].asked = n, ![p].raw = raw,
                                        ![p].seen = FreshSeen(req), ![p].i = 1,
                                        ![p].pc = "loop"]
    /\ UNCHANGED <<progress, embedder, kw_model, stemmer, init_pc>>

\* lines 148-155: one iteration of the loop; the response once the loop ends
ExtractLoop(p) ==
    /\ req[p].pc = "loop"
    /\ LET c == req[p].raw[req[p].i]
           stem == Stem(c.word)
           seen2 == AddSeen(req[p].seen, stem)
           results2 == EmitStem(req[p].results, req[p].seen, stem, c.score)
       IN  IF stemmer = "None"
           THEN Respond(p, 500, [detail |-> "Internal Server Error"])
           ELSE IF LoopBreak(results2, req[p].top_n) \/ req[p].i = Len(req[p].raw)
           THEN req' = [req EXCEPT ![p].seen = seen2, ![p].results = results2,
                                   ![p].pc = "done", ![p].code = 200,
                                   ![p].body = [stems |-> results2]]
           ELSE req' = [req EXCEPT ![p].seen = seen2, ![p].results = results2,
                                   ![p].i = req[p].i + 1]
    /\ UNCHANGED <<progress, embedder, kw_model, stemmer, init_pc>>

stems(p) == ExtractArrive(p) \/ ExtractCall(p) \/ ExtractLoop(p)

\* the response has been sent; the worker is free again
Finish(p) ==
    /\ req[p].pc = "done"
    /\ req' = [req EXCEPT ![p] = Idle]
    /\ UNCHANGED <<progress, embedder, kw_model, stemmer, init_pc>>

Next ==
    \/ startup_event
    \/ \E p \in Procs : health(p)
    \/ \E p \in Procs : status(p)
    \/ \E p \in Procs : stems(p)
    \/ \E p \in Procs : Finish(p)

Spec == Init /\ [][Next]_vars

\* The event loop runs the startup coroutine until it returns, every load
\* step returning or raising; a worker thread runs the handler it entered to
\* its end.
FairSpec ==
    /\ Spec
    /\ WF_vars(startup_event)
    /\ \A p \in Procs : WF_vars(ExtractCall(p) \/ ExtractLoop(p))

-----------------------------------------------------------------------------
(* Properties *)

ExtractDone(p) == req[p].kind = "extract" /\ req[p].pc = "done"

StatusDone(p) == req[p].kind = "status" /\ req[p].pc = "done"

HealthDone(p) == req[p].kind = "health" /\ req[p].pc = "done"

InHandler(p) == req[p].pc \in {"handler", "loop"}

Is4xx(c) == c >= 400 /\ c <= 499

\* C1: while the readiness status is not "ready", no /extract request is in the
\* handler body, every /extract response is 503 and was produced without a call
\* of the extractor, and every /health response is 200 {"status": "ok"}.
C1_NotReadyRejects ==
    progress["status"] # "ready" =>
        \A p \in Procs :
            /\ ~InHandler(p)
            /\ ~req[p].called
            /\ ExtractDone(p) => req[p].code = 503
            /\ HealthDone(p) => req[p].code = 200 /\ req[p].body = [status |-> "ok"]

\* C1 witness: in the error state one /extract was answered 503 while a /health
\* was answered ok.
C1_Witness ==
    /\ progress["status"] = "error"
    /\ \E p, q \in Procs :
          /\ ExtractDone(p) /\ req[p].code = 503
          /\ HealthDone(q) /\ req[q].code = 200

\* C2 as stated: every answered /extract request with min_ngram > max_ngram got a
\* 400-class response, whenever it arrived.
C2_Original ==
    \A p \in Procs :
        ExtractDone(p) /\ req[p].min_ngram > req[p].max_ngram => Is4xx(req[p].code)

\* C2 amended: an answered /extract request with min_ngram > max_ngram got a
\* 400-class response (400 or 422) if the readiness status is "ready", whatever
\* its other fields, and the 503 of the readiness gate otherwise; the extractor
\* was not called for it.
C2_Amended ==
    \A p \in Procs :
        req[p].kind = "extract" /\ req[p].min_ngram > req[p].max_ngram =>
            /\ ~req[p].called
            /\ req[p].pc # "loop"
            /\ req[p].pc = "done" =>
                  IF progress["status"] = "ready"
                  THEN Is4xx(req[p].code)
                  ELSE req[p].code = 503

\* C2 witness: in the ready state a request with valid fields and
\* min_ngram > max_ngram was answered 400.
C2_Witness ==
    /\ progress["status"] = "ready"
    /\ \E p \in Procs :
          /\ ExtractDone(p)
          /\ req[p].min_ngram > req[p].max_ngram
          /\ FieldsValid(req[p])
          /\ req[p].code = 400

\* scores of a result list never increase from one entry to the next
NonIncreasing(res) == \A a, b \in DOMAIN res : a < b => res[a].score >= res[b].score

\* no stem occurs twice in a result list
DistinctStems(res) == \A a, b \in DOMAIN res : a # b => res[a].stem # res[b].stem

\* C3: a 200 response of /extract has at most top_n entries, pairwise different
\* stems and non-increasing scores.
C3_ResultShape ==
    \A p \in Procs :
        ExtractDone(p) /\ req[p].code = 200 =>
            /\ Len(req[p].body.stems) <= req[p].top_n
            /\ DistinctStems(req[p].body.stems)
            /\ NonIncreasing(req[p].body.stems)

\* C3 witness: a response with top_n = 2 entries of different scores for which a
\* candidate with a repeated stem was passed over.
C3_Witness ==
    \E p \in Procs :
        /\ ExtractDone(p) /\ req[p].code = 200
        /\ req[p].top_n = 2
        /\ Len(req[p].body.stems) = 2
        /\ req[p].i = 3
        /\ req[p].body.stems[1].score > req[p].body.stems[2].score

\* the milestones of the status sequence, in order
Milestones ==
    <<[status |-> "not_started", percent |-> 0],
      [status |-> "loading_embedder", percent |-> 10],
      [status |-> "loading_kw_model", percent |-> 50],
      [status |-> "loading_stemmer", percent |-> 80],
      [status |-> "ready", percent |-> 100]>>

ErrorPair == [status |-> "error", percent |-> 0]

\* the (status, percent) pair /status reports for a readiness state or a response
Pair(d) == [status |-> d["status"], percent |-> d["percent"]]

C4_Step ==
    /\ Pair(progress') # Pair(progress) =>
          \/ \E k \in 1..(Len(Milestones) - 1) :
                Pair(progress) = Milestones[k] /\ Pair(progress') = Milestones[k + 1]
          \/ /\ progress["status"] \notin {"ready", "error"}
             /\ Pair(progress') = ErrorPair
    /\ progress'["percent"] >= progress["percent"] \/ progress'["status"] = "error"
    /\ \A p \in Procs :
          req'[p].kind = "status" /\ req'[p].pc = "done" =>
              \/ \E k \in 1..Len(Milestones) : Pair(req'[p].body) = Milestones[k]
              \/ Pair(req'[p].body) = ErrorPair

\* C4: the (status, percent) pair that /status reports moves only from one
\* milestone to the next one, not_started(0), loading_embedder(10),
\* loading_kw_model(50), loading_stemmer(80), ready(100), with percent never
\* decreasing, or from a non-terminal milestone to error(0); every /status
\* response reports one of these pairs.
C4_StatusSequence == [][C4_Step]_vars

\* C4 witness: a /status response reports (ready, 100).
C4_Witness ==
    \E p \in Procs : StatusDone(p) /\ Pair(req[p].body) = Milestones[5]

C5_Step ==
    /\ init_pc \in {"load_embedder", "load_kw_model", "load_stemmer"} /\ init_pc' = "returned" =>
          progress'["status"] = "error"
    /\ progress'["status"] = "error" => progress'["percent"] = 0 /\ init_pc' = "returned"
    /\ progress["status"] = "error" =>
          /\ UNCHANGED <<progress, embedder, kw_model, stemmer, init_pc>>
          /\ \A p \in Procs :
                /\ req'[p].pc \notin {"handler", "loop"}
                /\ ~req'[p].called
                /\ req'[p].kind = "extract" /\ req'[p].pc = "done" => req'[p].code = 503
                /\ req[p].pc = "idle" =>
                      ENABLED health(p) /\ ENABLED StatusReadStatus(p) /\ ENABLED ExtractArrive(p)

\* C5: a load step that raises ends the startup task with the readiness state
\* error and percent 0; from then on the readiness state, the model handles and
\* the position of the startup task never change (no retry), a free worker takes
\* up /health, /status and /extract requests, and every /extract request is
\* answered 503 without entering the handler.
C5_ErrorIsFinal == [][C5_Step]_vars

\* C5 witness: after a failure of the stemmer step (the extractor is loaded), a
\* valid /extract request was answered 503 and a /status request reported error.
C5_Witness ==
    /\ progress["status"] = "error"
    /\ kw_model.set
    /\ \E p, q \in Procs :
          /\ ExtractDone(p) /\ FieldsValid(req[p]) /\ ~NgramRejected(req[p])
          /\ req[p].code = 503
          /\ StatusDone(q) /\ req[q].body.status = "error"

\* C6 as stated: the readiness state of a failed initialization holds the map
\* {error: m} under "details"; a /status response reporting error has percent 0
\* and a details map that is this map, with the key "error"; a /status response
\* reporting any other status has an empty details map.
C6_StatusDetails ==
    /\ progress["status"] = "error" =>
          "details" \in DOMAIN progress /\ DOMAIN progress["details"] = {"error"}
    /\ \A p \in Procs :
          StatusDone(p) =>
              IF req[p].body.status = "error"
              THEN /\ req[p].body.percent = 0
                   /\ DOMAIN req[p].body.details = {"error"}
                   /\ req[p].body.details["error"] = progress["details"]["error"]
              ELSE DOMAIN req[p].body.details = {}

\* the index of the first candidate of raw whose stem is st
FirstIndex(raw, st) ==
    CHOOSE j \in DOMAIN raw :
        Stem(raw[j].word) = st /\ \A k \in 1..(j - 1) : Stem(raw[k].word) # st

\* C7: in a 200 response of /extract every entry carries a stem of some
\* candidate and the score of the earliest candidate with that stem, the
\* entries are in the order of these earliest candidates, and every candidate
\* consumed by the loop has its stem in the response.
C7_FirstOccurrence ==
    \A p \in Procs :
        ExtractDone(p) /\ req[p].code = 200 =>
            LET res == req[p].body.stems
                raw == req[p].raw
            IN  /\ \A k \in DOMAIN res :
                      /\ \E j \in DOMAIN raw : Stem(raw[j].word) = res[k].stem
                      /\ res[k].score = raw[FirstIndex(raw, res[k].stem)].score
                /\ \A a, b \in DOMAIN res :
                      a < b => FirstIndex(raw, res[a].stem) < FirstIndex(raw, res[b].stem)
                /\ \A j \in 1..req[p].i :
                      \E k \in DOMAIN res : res[k].stem = Stem(raw[j].word)

\* C7 witness: the loop consumed two candidates with the same stem and
\* different scores, and the response has two entries.
C7_Witness ==
    \E p \in Procs :
        /\ ExtractDone(p) /\ req[p].code = 200
        /\ Len(req[p].body.stems) = 2
        /\ \E j, k \in 1..req[p].i :
              /\ j < k
              /\ Stem(req[p].raw[j].word) = Stem(req[p].raw[k].word)
              /\ req[p].raw[j].score > req[p].raw[k].score

\* C8 as stated: while the startup task is loading models, a free worker takes
\* up /health and /status requests.
C8_ServesWhileLoading ==
    progress["status"] \in {"loading_embedder", "loading_kw_model", "loading_stemmer"} =>
        \A p \in Procs :
            req[p].pc = "idle" => ENABLED health(p) /\ ENABLED StatusReadStatus(p)

SameInput(p, q) ==
    /\ req[p].doc = req[q].doc
    /\ req[p].top_n = req[q].top_n
    /\ req[p].min_ngram = req[q].min_ngram
    /\ req[p].max_ngram = req[q].max_ngram

\* C9: two answered /extract requests with the same doc, top_n, min_ngram and
\* max_ngram have the same status code and the same body, whether one call ran
\* before the other or while the other was in flight.
C9_Idempotent ==
    \A p, q \in Procs :
        ExtractDone(p) /\ ExtractDone(q) /\ SameInput(p, q) =>
            /\ req[p].code = req[q].code
            /\ req[p].code = 200 => req[p].body.stems = req[q].body.stems

\* C9 witness: two workers hold 200 responses with two stems each for the same
\* input.
C9_Witness ==
    \E p, q \in Procs :
        /\ p # q
        /\ ExtractDone(p) /\ ExtractDone(q) /\ SameInput(p, q)
        /\ req[p].code = 200
        /\ Len(req[p].body.stems) = 2

\* C10: a /extract request whose top_n is below 1 or above TOP_N_MAX never
\* enters the handler body and never has the extractor called; it is answered
\* 422 by the validation of the body in the ready state, and otherwise 503.
C10_TopNRejected ==
    \A p \in Procs :
        req[p].kind = "extract" /\ (req[p].top_n < 1 \/ req[p].top_n > TOP_N_MAX) =>
            /\ req[p].pc = "done"
            /\ ~req[p].called
            /\ req[p].code = IF progress["status"] = "ready" THEN 422 ELSE 503

\* C10 witness: in the ready state a request with top_n = TOP_N_MAX + 1 and
\* otherwise valid fields was answered 422.
C10_Witness ==
    /\ progress["status"] = "ready"
    /\ \E p \in Procs :
          /\ ExtractDone(p)
          /\ req[p].top_n = TOP_N_MAX + 1
          /\ req[p].min_ngram >= 1 /\ req[p].max_ngram >= req[p].min_ngram
          /\ req[p].code = 422

\* the stems of the first n candidates of raw
StemsOf(raw, n) == {Stem(raw[j].word) : j \in 1..n}

\* C11: a 200 response of /extract comes from one call of the extractor that
\* asked for top_n * 2 candidates of min_ngram..max_ngram words; it has
\* min(top_n, d) entries, d the number of different stems of the returned
\* candidates; the loop never goes on with top_n entries emitted, the last
\* candidate it consumed gave the entry number top_n, and a response with fewer
\* than top_n entries consumed every candidate.
C11_ExactCount ==
    \A p \in Procs :
        /\ req[p].pc = "loop" => Len(req[p].results) < req[p].top_n
        /\ ExtractDone(p) /\ req[p].code = 200 =>
              LET raw == req[p].raw
                  res == req[p].body.stems
              IN  /\ req[p].called
                  /\ req[p].asked = req[p].top_n * 2
                  /\ Len(raw) <= req[p].asked
                  /\ \A j \in DOMAIN raw :
                        /\ NgramLen(raw[j].word) >= req[p].min_ngram
                        /\ NgramLen(raw[j].word) <= req[p].max_ngram
                  /\ Len(res) = Min(req[p].top_n, Cardinality(StemsOf(raw, Len(raw))))
                  /\ Len(res) = req[p].top_n =>
                        /\ req[p].i >= 1
                        /\ Cardinality(StemsOf(raw, req[p].i - 1)) = req[p].top_n - 1
                  /\ Len(res) < req[p].top_n => req[p].i = Len(raw)

\* C11 witness: two candidates with one stem were consumed for top_n = 2 and
\* the response has one entry.
C11_Witness ==
    \E p \in Procs :
        /\ ExtractDone(p) /\ req[p].code = 200
        /\ req[p].top_n = 2
        /\ Len(req[p].raw) = 2
        /\ req[p].i = 2
        /\ Len(req[p].body.stems) = 1

\* the statuses of a successful initialization, in order
StatusOrder ==
    <<"not_started", "loading_embedder", "loading_kw_model", "loading_stemmer", "ready">>

\* the positions of the startup task, in order
PcOrder ==
    <<"start", "load_embedder", "set_kw_model", "load_kw_model", "set_stemmer",
      "load_stemmer", "set_ready", "returned">>

\* the place of x in the sequence s
IndexOf(s, x) == CHOOSE k \in DOMAIN s : s[k] = x

\* what is loaded and what is not, for every status
C12_Loaded ==
    /\ progress["status"] = "not_started" =>
          ~embedder.set /\ ~kw_model.set /\ stemmer = "None"
    /\ progress["status"] = "loading_embedder" => ~kw_model.set /\ stemmer = "None"
    /\ progress["status"] = "loading_kw_model" => embedder.set /\ stemmer = "None"
    /\ progress["status"] = "loading_stemmer" => embedder.set /\ kw_model.set
    /\ progress["status"] = "ready" => embedder.set /\ kw_model.set /\ stemmer # "None"
    /\ kw_model.set => embedder.set
    /\ stemmer # "None" => kw_model.set

C12_Step ==
    /\ C12_Loaded /\ C12_Loaded'
    /\ progress'["status"] # progress["status"] =>
          \/ progress'["status"] = "error"
          \/ /\ progress["status"] # "error"
             /\ progress'["status"] # "error"
             /\ IndexOf(StatusOrder, progress'["status"])
                    = IndexOf(StatusOrder, progress["status"]) + 1
    /\ progress' # progress => progress'["status"] # progress["status"]
    /\ init_pc' # init_pc => IndexOf(PcOrder, init_pc') > IndexOf(PcOrder, init_pc)
    /\ embedder' # embedder => progress["status"] = "loading_embedder" /\ ~embedder.set
    /\ kw_model' # kw_model => progress["status"] = "loading_kw_model" /\ ~kw_model.set
    /\ stemmer' # stemmer => progress["status"] = "loading_stemmer" /\ stemmer = "None"

\* C12: the startup task only moves forward; a status is written once, right
\* after the status before it in the order not_started, loading_embedder,
\* loading_kw_model, loading_stemmer, ready (or error in its place); the
\* embedder is loaded under loading_embedder, the extractor is constructed
\* under loading_kw_model from a loaded embedder, the stemmer under
\* loading_stemmer with the extractor constructed, and ready is written with
\* all three set.
C12_StrictOrder == [][C12_Step]_vars

\* C12 witness: the startup task has returned with status ready and the three
\* handles set.
C12_Witness ==
    /\ init_pc = "returned"
    /\ progress["status"] = "ready"
    /\ embedder.set /\ kw_model.set /\ stemmer = "russian"

\* C13: once the readiness status is ready or error, no step changes the
\* readiness state (status, percent, details).
C13_TerminalStates ==
    [][progress["status"] \in {"ready", "error"} => progress' = progress]_vars

\* C13 witness: in the ready state one worker holds a 200 response of /extract
\* and another one a /status response.
C13_Witness ==
    /\ progress["status"] = "ready"
    /\ \E p, q \in Procs :
          /\ ExtractDone(p) /\ req[p].code = 200
          /\ StatusDone(q)

\* C14: a step of a request (of /status, /health or /extract, whatever its
\* outcome) leaves the readiness state and the three model handles unchanged;
\* they change only in steps of the startup task, which touch no request.
C14_OnlyWriter ==
    [][/\ req' # req => UNCHANGED <<progress, embedder, kw_model, stemmer, init_pc>>
       /\ <<progress, embedder, kw_model, stemmer>>' # <<progress, embedder, kw_model, stemmer>>
             => init_pc' # init_pc /\ req' = req]_vars

\* C14 witness: in the ready state one worker holds a 400 response of /extract
\* while the other one is inside the loop of the handler.
C14_Witness ==
    /\ progress["status"] = "ready"
    /\ \E p, q \in Procs :
          /\ ExtractDone(p) /\ req[p].code = 400
          /\ req[q].pc = "loop"

\* the (status, percent) pairs the startup task writes together
WrittenPairs == {Milestones[k] : k \in DOMAIN Milestones} \cup {ErrorPair}

C16_ReadyHasModels ==
    /\ progress["status"] = "ready" => embedder.set /\ kw_model.set /\ stemmer # "None"
    /\ init_pc = "returned" /\ ~(embedder.set /\ kw_model.set /\ stemmer # "None") =>
          progress["status"] = "error"
    /\ \A p \in Procs :
          /\ InHandler(p) \/ req[p].called => kw_model.set /\ stemmer # "None"
          /\ req[p].code # 500

\* C16 witness: in the ready state a request is inside the loop of the handler
\* with one stem emitted by the stemmer.
C16_Witness ==
    /\ progress["status"] = "ready"
    /\ \E p \in Procs : req[p].pc = "loop" /\ Len(req[p].results) = 1

\* C17: the startup task eventually returns, and when it has returned the
\* status is ready or error, ready if no load step raised (all handles set);
\* an /extract request with valid fields and min_ngram <= max_ngram that
\* entered the handler, which it does only after ready, is eventually answered
\* 200.
C17_Terminates ==
    /\ <>(init_pc = "returned")
    /\ [](init_pc = "returned" => progress["status"] \in {"ready", "error"})
    /\ [](init_pc = "returned" /\ stemmer # "None" => progress["status"] = "ready")
    /\ \A p \in Procs :
          (req[p].pc = "handler" /\ ~NgramRejected(req[p]))
              ~> (ExtractDone(p) /\ req[p].code = 200)

\* C17 witness: after the startup task returned with status ready, a request
\* with top_n = 1 over 1..2 words on a document with candidates was answered
\* 200 with one stem.
C17_Witness ==
    /\ init_pc = "returned"
    /\ progress["status"] = "ready"
    /\ \E p \in Procs :
          /\ ExtractDone(p) /\ req[p].code = 200
          /\ req[p].top_n = 1 /\ req[p].min_ngram = 1 /\ req[p].max_ngram = 2
          /\ Len(req[p].body.stems) = 1

====
